---- MODULE Spec2Model ----
(***************************************************************************)
(* Model of data_cleaning_complete.py: the MovieLens 100K cleaning and     *)
(* integration pipeline run by main().                                     *)
(*                                                                         *)
(* Tables are sequences of records (a DataFrame's rows in order).  A cell  *)
(* that may be missing is an "optional": NaN == <<>> or <<v>>.  Strings    *)
(* the code edits (titles, occupations) are sequences of one-character     *)
(* strings, so that strip/lower/upper are computed and not assumed.        *)
(* Columns no later stage reads (release_date, video_release_date,         *)
(* IMDb_URL) are left out of the item rows.                                *)
(***************************************************************************)
EXTENDS Integers, Sequences, FiniteSets, TLC

VARIABLES
    files,              \* the three input files u.data, u.item, u.user on disk
    pc,                 \* position of main()
    ratings, items, users,                      \* main's raw tables
    ratings_clean, items_clean, users_clean,    \* main's cleaned tables
    final_data,         \* the integrated table
    user_item_matrix,   \* the pivoted matrix
    svd_data,           \* the flat triple list
    sparsity,           \* the sparsity percentage printed by prepare_svd_data
    log,                \* the counts the cleaners print
    written             \* the artifacts present in data_dir after the run

vars == <<files, pc, ratings, items, users, ratings_clean, items_clean,
          users_clean, final_data, user_item_matrix, svd_data, sparsity,
          log, written>>

(***************************************************************************)
(* Bounds of the explored inputs.                                          *)
(***************************************************************************)
MaxRatings == 2         \* rows of u.data in SpecRatings
MaxItems == 2           \* rows of u.item in SpecItems
MaxUsers == 2           \* rows of u.user in SpecUsers
MaxFlagsSet == 2        \* genre flags set to 1 in a single-row u.item
MaxAge == 70            \* ages 0..MaxAge in a single-row u.user
MaxJoinRatings == 1     \* rows of u.data in SpecJoin
MaxJoinItems == 2       \* rows of u.item in SpecJoin
MaxJoinUsers == 2       \* rows of u.user in SpecJoin

(***************************************************************************)
(* Optional values and generic table helpers.                              *)
(***************************************************************************)
NaN == <<>>
Some(v) == <<v>>
IsNull(x) == x = NaN

\* Sequences over S of length 0..n.
SeqUpTo(S, n) == UNION {[1..k -> S] : k \in 0..n}

\* df[mask]: the rows at the indices in keep, in their original order.
RowsAt(t, keep) ==
    LET F[n \in 0..Len(t)] ==
            IF n = 0 THEN <<>>
            ELSE IF n \in keep THEN Append(F[n - 1], t[n]) ELSE F[n - 1]
    IN  F[Len(t)]

\* Series.nunique() of a column without missing keys.
nunique(t, col) == Cardinality({t[k][col] : k \in 1..Len(t)})

RECURSIVE GCD(_, _)
GCD(a, b) == IF b = 0 THEN a ELSE GCD(b, a % b)

\* The exact quotient n/d (d > 0) as a reduced fraction <<num, den>>.
Frac(n, d) ==
    LET a == IF n < 0 THEN -n ELSE n
        g == GCD(a, d)
    IN  <<n \div g, d \div g>>

(***************************************************************************)
(* DataFrame.drop_duplicates: keep = 'first' is the pandas default.        *)
(***************************************************************************)
\* Rows a and b agree on the columns in subset.
SameKey(a, b, subset) == \A c \in subset : a[c] = b[c]

drop_duplicates_last(t, subset) ==
    RowsAt(t, {k \in 1..Len(t) :
                 \A j \in (k + 1)..Len(t) : ~SameKey(t[j], t[k], subset)})

drop_duplicates(t, subset) ==
    RowsAt(t, {k \in 1..Len(t) :
                 \A j \in 1..(k - 1) : ~SameKey(t[j], t[k], subset)})

\* The columns of the ratings table: drop_duplicates() compares all of them.
RatingColumns == {"user_id", "item_id", "rating", "timestamp"}

(***************************************************************************)
(* clean_ratings_data                                                      *)
(***************************************************************************)
\* Comparisons of a possibly missing number: every comparison with NaN is False.
Lt(x, n) == ~IsNull(x) /\ x[1] < n
Gt(x, n) == ~IsNull(x) /\ x[1] > n
Ge(x, n) == ~IsNull(x) /\ x[1] >= n
Le(x, n) == ~IsNull(x) /\ x[1] <= n

\* pd.to_datetime(column, unit='s'): a timestamp cell is <<dtype, seconds>>.
\* Epoch seconds become an instant (datetime64) of the same second, a missing
\* value becomes NaT, and a cell that already is an instant is returned as is.
to_datetime(ts) ==
    CASE ts[1] = "int64" -> <<"datetime64", ts[2]>>
      [] ts[1] = "NaN" -> <<"NaT", 0>>
      [] OTHER -> ts

clean_ratings_data(rs) ==
    LET deduped == drop_duplicates(rs, RatingColumns)
        invalid_ratings ==
            RowsAt(deduped, {k \in 1..Len(deduped) :
                Lt(deduped[k].rating, 1) \/ Gt(deduped[k].rating, 5)})
        filtered ==
            IF Len(invalid_ratings) > 0
            THEN RowsAt(deduped, {k \in 1..Len(deduped) :
                    Ge(deduped[k].rating, 1) /\ Le(deduped[k].rating, 5)})
            ELSE deduped
        converted ==
            [k \in 1..Len(filtered) |->
                [filtered[k] EXCEPT !.timestamp = to_datetime(@)]]
    IN  [table |-> converted,
         removed_duplicates |-> Len(rs) - Len(deduped),
         invalid_found |-> Len(invalid_ratings)]

(***************************************************************************)
(* String helpers over sequences of one-character strings.                 *)
(***************************************************************************)
Whitespace == {" "}
Digits == {"0", "1", "2", "3", "4", "5", "6", "7", "8", "9"}

DigitValue(c) ==
    CASE c = "0" -> 0 [] c = "1" -> 1 [] c = "2" -> 2 [] c = "3" -> 3
      [] c = "4" -> 4 [] c = "5" -> 5 [] c = "6" -> 6 [] c = "7" -> 7
      [] c = "8" -> 8 [] c = "9" -> 9

\* str.lower and str.upper on the letters the explored strings use.
LowerChar(c) ==
    CASE c = "D" -> "d" [] c = "R" -> "r" [] c = "M" -> "m" [] c = "F" -> "f"
      [] OTHER -> c

UpperChar(c) ==
    CASE c = "d" -> "D" [] c = "r" -> "R" [] c = "m" -> "M" [] c = "f" -> "F"
      [] OTHER -> c

str_lower(s) == [k \in 1..Len(s) |-> LowerChar(s[k])]
str_upper(s) == [k \in 1..Len(s) |-> UpperChar(s[k])]

\* str.strip(): drop leading and trailing whitespace.
RECURSIVE str_lstrip(_)
str_lstrip(s) ==
    IF s # <<>> /\ Head(s) \in Whitespace THEN str_lstrip(Tail(s)) ELSE s

RECURSIVE str_rstrip(_)
str_rstrip(s) ==
    IF s # <<>> /\ s[Len(s)] \in Whitespace
    THEN str_rstrip(SubSeq(s, 1, Len(s) - 1)) ELSE s

str_strip(s) == str_rstrip(str_lstrip(s))

\* str.extract(r'\((\d{4})\)$') followed by pd.to_numeric(errors='coerce'):
\* the four digits of a trailing "(YYYY)" as a number, NaN when there is none.
extract_release_year(title) ==
    LET n == Len(title)
    IN  IF /\ n >= 6
           /\ title[n - 5] = "("
           /\ \A k \in (n - 4)..(n - 1) : title[k] \in Digits
           /\ title[n] = ")"
        THEN Some(DigitValue(title[n - 4]) * 1000 + DigitValue(title[n - 3]) * 100
                  + DigitValue(title[n - 2]) * 10 + DigitValue(title[n - 1]))
        ELSE NaN

(***************************************************************************)
(* clean_items_data                                                        *)
(***************************************************************************)
genre_cols ==
    <<"unknown", "Action", "Adventure", "Animation", "Children's", "Comedy",
      "Crime", "Documentary", "Drama", "Fantasy", "Film-Noir", "Horror",
      "Musical", "Mystery", "Romance", "Sci-Fi", "Thriller", "War", "Western">>

GenreNames == {genre_cols[k] : k \in 1..Len(genre_cols)}

\* ', '.join(names)
RECURSIVE join(_)
join(names) ==
    IF Len(names) = 1 THEN names[1]
    ELSE names[1] \o ", " \o join(Tail(names))

\* The names, among cols in order, whose flag in the row is 1.
RECURSIVE ActiveGenres(_, _)
ActiveGenres(flags, cols) ==
    IF cols = <<>> THEN <<>>
    ELSE (IF flags[Head(cols)] = Some(1) THEN <<Head(cols)>> ELSE <<>>)
         \o ActiveGenres(flags, Tail(cols))

get_genres_with_unknown(row) ==
    LET genres == ActiveGenres(row.flags, genre_cols)
    IN  IF genres # <<>> THEN join(genres) ELSE "Unknown"

get_genres(row) ==
    LET genres == ActiveGenres(row.flags, Tail(genre_cols))   \* skip 'unknown'
    IN  IF genres # <<>> THEN join(genres) ELSE "Unknown"

items_drop_duplicates_keep_last(t) == drop_duplicates_last(t, {"item_id"})

\* items.drop_duplicates(subset=['item_id'])
items_drop_duplicates(t) == drop_duplicates(t, {"item_id"})

\* items[col].astype(int) raises when a flag is missing.
astype_int_raises(t) ==
    \E k \in 1..Len(t) : \E g \in GenreNames : IsNull(t[k].flags[g])

clean_item_row_year_first(r) ==
    [item_id |-> r.item_id,
     movie_title |-> str_strip(r.movie_title),
     release_year |-> extract_release_year(r.movie_title),
     flags |-> r.flags,
     genres |-> get_genres(r)]

\* What clean_items_data does to one surviving row: strip the title, extract
\* the year from the stripped title, derive genres.
clean_item_row(r) ==
    [item_id |-> r.item_id,
     movie_title |-> str_strip(r.movie_title),
     release_year |-> extract_release_year(str_strip(r.movie_title)),
     flags |-> r.flags,
     genres |-> get_genres(r)]

\* On a table without rows items.apply(get_genres, axis=1) returns a frame, not
\* a column, and whether assigning it to items['genres'] raises depends on the
\* pandas version: may_raise marks that case, and main takes either outcome.
clean_items_data(its) ==
    LET deduped == items_drop_duplicates(its)
    IN  [table |-> [k \in 1..Len(deduped) |-> clean_item_row(deduped[k])],
         removed_duplicates |-> Len(its) - Len(deduped),
         raised |-> astype_int_raises(deduped),
         may_raise |-> deduped = <<>>]

(***************************************************************************)
(* clean_users_data                                                        *)
(***************************************************************************)
categorize_age_closed_right(age) ==
    IF age <= 18 THEN "Under 18"
    ELSE IF age <= 25 THEN "18-24"
    ELSE IF age <= 35 THEN "25-34"
    ELSE IF age <= 50 THEN "35-49"
    ELSE IF age <= 65 THEN "50-64"
    ELSE "65+"

categorize_age(age) ==
    IF age < 18 THEN "Under 18"
    ELSE IF age < 25 THEN "18-24"
    ELSE IF age < 35 THEN "25-34"
    ELSE IF age < 50 THEN "35-49"
    ELSE IF age < 65 THEN "50-64"
    ELSE "65+"

users_drop_duplicates_keep_last(t) == drop_duplicates_last(t, {"user_id"})

\* users.drop_duplicates(subset=['user_id'])
users_drop_duplicates(t) == drop_duplicates(t, {"user_id"})

clean_user_row(r) ==
    [user_id |-> r.user_id,
     age |-> r.age,
     gender |-> str_upper(r.gender),
     occupation |-> str_lower(str_strip(r.occupation)),
     zip_code |-> r.zip_code,
     age_group |-> categorize_age(r.age)]

clean_users_data(us) ==
    LET deduped == users_drop_duplicates(us)
    IN  [table |-> [k \in 1..Len(deduped) |-> clean_user_row(deduped[k])],
         removed_duplicates |-> Len(us) - Len(deduped)]

(***************************************************************************)
(* integrate_data: two left merges, ratings as the driving table.          *)
(***************************************************************************)
RECURSIVE Flatten(_)
Flatten(ss) == IF ss = <<>> THEN <<>> ELSE Head(ss) \o Flatten(Tail(ss))

\* The columns items[['item_id', 'movie_title', 'release_year', 'genres']] add.
WithItem(l, r) ==
    [user_id |-> l.user_id, item_id |-> l.item_id, rating |-> l.rating,
     timestamp |-> l.timestamp,
     movie_title |-> Some(r.movie_title), release_year |-> r.release_year,
     genres |-> Some(r.genres)]

WithoutItem(l) ==
    [user_id |-> l.user_id, item_id |-> l.item_id, rating |-> l.rating,
     timestamp |-> l.timestamp,
     movie_title |-> NaN, release_year |-> NaN, genres |-> NaN]

merge_items_inner(left, right) ==
    Flatten([k \in 1..Len(left) |->
        LET m == RowsAt(right, {j \in 1..Len(right) :
                                  right[j].item_id = left[k].item_id})
        IN  [j \in 1..Len(m) |-> WithItem(left[k], m[j])]])

\* final_data.merge(items[[...]], on='item_id', how='left')
merge_items(left, right) ==
    Flatten([k \in 1..Len(left) |->
        LET m == RowsAt(right, {j \in 1..Len(right) :
                                  right[j].item_id = left[k].item_id})
        IN  IF m = <<>> THEN <<WithoutItem(left[k])>>
            ELSE [j \in 1..Len(m) |-> WithItem(left[k], m[j])]])

\* The columns users[['user_id', 'age', 'gender', 'occupation', 'age_group']] add.
UserFields(r) ==
    [age |-> Some(r.age), gender |-> Some(r.gender),
     occupation |-> Some(r.occupation), age_group |-> Some(r.age_group)]

NoUserFields ==
    [age |-> NaN, gender |-> NaN, occupation |-> NaN, age_group |-> NaN]

WithUser(l, u) ==
    [user_id |-> l.user_id, item_id |-> l.item_id, rating |-> l.rating,
     timestamp |-> l.timestamp, movie_title |-> l.movie_title,
     release_year |-> l.release_year, genres |-> l.genres,
     age |-> u.age, gender |-> u.gender, occupation |-> u.occupation,
     age_group |-> u.age_group]

\* final_data.merge(users[[...]], on='user_id', how='left')
merge_users(left, right) ==
    Flatten([k \in 1..Len(left) |->
        LET m == RowsAt(right, {j \in 1..Len(right) :
                                  right[j].user_id = left[k].user_id})
        IN  IF m = <<>> THEN <<WithUser(left[k], NoUserFields)>>
            ELSE [j \in 1..Len(m) |-> WithUser(left[k], UserFields(m[j]))]])

integrate_data(rs, its, us) == merge_users(merge_items(rs, its), us)

(***************************************************************************)
(* prepare_svd_data                                                        *)
(***************************************************************************)
RECURSIVE SumSeq(_)
SumSeq(s) == IF s = <<>> THEN 0 ELSE Head(s) + SumSeq(Tail(s))

aggfunc_last(vals) == Frac(vals[Len(vals)], 1)

\* pivot_table's default aggfunc: the mean of a group's values.
aggfunc_mean(vals) == Frac(SumSeq(vals), Len(vals))

\* The non-missing ratings of the rows of fd for the pair (u, i), in row order
\* (groupby's mean skips NaN).
GroupValues(fd, u, i) ==
    LET g == RowsAt(fd, {k \in 1..Len(fd) :
                 fd[k].user_id = u /\ fd[k].item_id = i /\ ~IsNull(fd[k].rating)})
    IN  [k \in 1..Len(g) |-> g[k].rating[1]]

\* final_data.pivot_table(index='user_id', columns='item_id',
\* values='rating').fillna(0): groups whose mean is NaN are dropped before the
\* unstack, so the labels are those of the groups left (none when every rating
\* is missing: an empty matrix); absent cells are 0.
pivot_table_fillna(fd) ==
    LET kept == {p \in {<<fd[k].user_id, fd[k].item_id>> : k \in 1..Len(fd)} :
                    GroupValues(fd, p[1], p[2]) # <<>>}
        idx == {p[1] : p \in kept}
        cols == {p[2] : p \in kept}
    IN  [index |-> idx,
         columns |-> cols,
         cell |-> [p \in idx \X cols |->
                     IF p \in kept THEN aggfunc_mean(GroupValues(fd, p[1], p[2]))
                     ELSE <<0, 1>>]]

Triple(r) == [user_id |-> r.user_id, item_id |-> r.item_id, rating |-> r.rating]

prepare_svd_data(fd) ==
    LET triples == [k \in 1..Len(fd) |-> Triple(fd[k])]
        total_possible_ratings == nunique(triples, "user_id") * nunique(triples, "item_id")
        actual_ratings == Len(triples)
    IN  [user_item_matrix |-> pivot_table_fillna(fd),
         svd_data |-> triples,
         raised |-> total_possible_ratings = 0,        \* ZeroDivisionError
         sparsity |-> IF total_possible_ratings = 0 THEN <<0, 1>>
                      ELSE Frac((total_possible_ratings - actual_ratings) * 100,
                                total_possible_ratings)]

(***************************************************************************)
(* load_raw_data: pd.read_csv(path, names=[...]).  A missing file raises   *)
(* FileNotFoundError.  A file with fewer columns than names raises nothing:*)
(* the trailing named columns are filled with NaN.                         *)
(***************************************************************************)
DataCols == 4       \* names=["user_id", "item_id", "rating", "timestamp"]
ItemCols == 24      \* the 24 names given for u.item
UserCols == 5       \* names=["user_id", "age", "gender", "occupation", "zip_code"]
FirstGenreCol == 6  \* "unknown" is the 6th name of u.item

GenreColumn(g) ==
    FirstGenreCol - 1 + CHOOSE k \in 1..Len(genre_cols) : genre_cols[k] = g

read_data(f) ==
    [k \in 1..Len(f.rows) |->
        [f.rows[k] EXCEPT !.timestamp =
            IF f.ncols < DataCols THEN <<"NaN", 0>> ELSE @]]

read_item(f) ==
    [k \in 1..Len(f.rows) |->
        [f.rows[k] EXCEPT !.flags =
            [g \in GenreNames |-> IF GenreColumn(g) > f.ncols THEN NaN ELSE @[g]]]]

read_user(f) ==
    [k \in 1..Len(f.rows) |->
        [f.rows[k] EXCEPT !.zip_code = IF f.ncols < UserCols THEN NaN ELSE @]]

load_raw_data(fs) ==
    [raised |-> ~(fs.data.exists /\ fs.item.exists /\ fs.user.exists),
     ratings |-> read_data(fs.data),
     items |-> read_item(fs.item),
     users |-> read_user(fs.user)]

(***************************************************************************)
(* main: one action per numbered step.  An exception in a step propagates  *)
(* uncaught and ends the run (pc = "aborted").                             *)
(***************************************************************************)
Artifacts == {"final_data_cleaned.csv", "svd_data.csv", "user_item_matrix.csv"}

EmptyMatrix == [index |-> {}, columns |-> {}, cell |-> [p \in {} |-> <<0, 1>>]]

NoLog == [duplicate_ratings |-> 0, invalid_ratings |-> 0,
          duplicate_items |-> 0, duplicate_users |-> 0]

\* 2. Load raw data
main_load_raw_data ==
    /\ pc = "start"
    /\ LET l == load_raw_data(files)
       IN  IF l.raised
           THEN /\ pc' = "aborted"
                /\ UNCHANGED <<ratings, items, users>>
           ELSE /\ pc' = "loaded"
                /\ ratings' = l.ratings
                /\ items' = l.items
                /\ users' = l.users
    /\ UNCHANGED <<files, ratings_clean, items_clean, users_clean, final_data,
                   user_item_matrix, svd_data, sparsity, log, written>>

\* 3. Inspect data quality: prints only
main_inspect_data_quality ==
    /\ pc = "loaded"
    /\ pc' = "inspected"
    /\ UNCHANGED <<files, ratings, items, users, ratings_clean, items_clean,
                   users_clean, final_data, user_item_matrix, svd_data,
                   sparsity, log, written>>

\* 4. Clean individual datasets
main_clean_ratings_data ==
    /\ pc = "inspected"
    /\ LET c == clean_ratings_data(ratings)
       IN  /\ ratings_clean' = c.table
           /\ log' = [log EXCEPT !.duplicate_ratings = c.removed_duplicates,
                                 !.invalid_ratings = c.invalid_found]
    /\ pc' = "ratings_cleaned"
    /\ UNCHANGED <<files, ratings, items, users, items_clean, users_clean,
                   final_data, user_item_matrix, svd_data, sparsity, written>>

main_clean_items_data ==
    /\ pc = "ratings_cleaned"
    /\ LET c == clean_items_data(items)
       IN  \E version_raises \in (IF c.may_raise THEN BOOLEAN ELSE {FALSE}) :
           IF c.raised \/ version_raises
           THEN /\ pc' = "aborted"
                /\ log' = [log EXCEPT !.duplicate_items = c.removed_duplicates]
                /\ UNCHANGED items_clean
           ELSE /\ pc' = "items_cleaned"
                /\ log' = [log EXCEPT !.duplicate_items = c.removed_duplicates]
                /\ items_clean' = c.table
    /\ UNCHANGED <<files, ratings, items, users, ratings_clean, users_clean,
                   final_data, user_item_matrix, svd_data, sparsity, written>>

main_clean_users_data ==
    /\ pc = "items_cleaned"
    /\ LET c == clean_users_data(users)
       IN  /\ users_clean' = c.table
           /\ log' = [log EXCEPT !.duplicate_users = c.removed_duplicates]
    /\ pc' = "users_cleaned"
    /\ UNCHANGED <<files, ratings, items, users, ratings_clean, items_clean,
                   final_data, user_item_matrix, svd_data, sparsity, written>>

\* 5. Integrate data
main_integrate_data ==
    /\ pc = "users_cleaned"
    /\ final_data' = integrate_data(ratings_clean, items_clean, users_clean)
    /\ pc' = "integrated"
    /\ UNCHANGED <<files, ratings, items, users, ratings_clean, items_clean,
                   users_clean, user_item_matrix, svd_data, sparsity, log,
                   written>>

\* 6. Prepare SVD data
main_prepare_svd_data ==
    /\ pc = "integrated"
    /\ LET p == prepare_svd_data(final_data)
       IN  IF p.raised
           THEN /\ pc' = "aborted"
                /\ UNCHANGED <<user_item_matrix, svd_data, sparsity>>
           ELSE /\ pc' = "prepared"
                /\ user_item_matrix' = p.user_item_matrix
                /\ svd_data' = p.svd_data
                /\ sparsity' = p.sparsity
    /\ UNCHANGED <<files, ratings, items, users, ratings_clean, items_clean,
                   users_clean, final_data, log, written>>

\* 7. Save cleaned data, 8. final summary
main_save_cleaned_data ==
    /\ pc = "prepared"
    /\ written' = Artifacts
    /\ pc' = "done"
    /\ UNCHANGED <<files, ratings, items, users, ratings_clean, items_clean,
                   users_clean, final_data, user_item_matrix, svd_data,
                   sparsity, log>>

Next ==
    \/ main_load_raw_data
    \/ main_inspect_data_quality
    \/ main_clean_ratings_data
    \/ main_clean_items_data
    \/ main_clean_users_data
    \/ main_integrate_data
    \/ main_prepare_svd_data
    \/ main_save_cleaned_data

(***************************************************************************)
(* The explored inputs.                                                    *)
(***************************************************************************)
File(rows, n) == [exists |-> TRUE, ncols |-> n, rows |-> rows]

Flags(active) == [g \in GenreNames |-> IF g \in active THEN Some(1) ELSE Some(0)]

TitleYear == <<"A", " ", "(", "1", "9", "9", "5", ")">>
TitleYearPadded == <<" ">> \o TitleYear \o <<" ">>
TitleNoYear == <<"B", " ", "(", "9", "5", ")">>

RatingValues == {NaN, Some(0), Some(1), Some(5), Some(6)}

RatingRows ==
    [user_id : {1, 2}, item_id : {1, 2}, rating : RatingValues,
     timestamp : {<<"int64", 0>>, <<"int64", 1>>}]

ItemRows ==
    [item_id : {1, 2},
     movie_title : {TitleYear, TitleYearPadded, TitleNoYear},
     flags : {Flags({}), Flags({"unknown"}), Flags({"Action", "War"})}]

UserRows ==
    [user_id : {1, 2}, age : {17, 18}, gender : {<<"m">>, <<"F">>},
     occupation : {<<" ", "D", "r">>, <<"d", "r">>}, zip_code : {Some(85711)}]

\* The subsets of S with at most n elements.
RECURSIVE SmallSubsets(_, _)
SmallSubsets(S, n) ==
    IF n = 0 THEN {{}}
    ELSE LET T == SmallSubsets(S, n - 1)
         IN  T \cup {s \cup {x} : s \in T, x \in S}

BaseData ==
    <<[user_id |-> 1, item_id |-> 1, rating |-> Some(4), timestamp |-> <<"int64", 0>>],
      [user_id |-> 2, item_id |-> 2, rating |-> Some(5), timestamp |-> <<"int64", 1>>]>>

BaseItems ==
    <<[item_id |-> 1, movie_title |-> TitleYear, flags |-> Flags({"Action"})]>>

BaseUsers ==
    <<[user_id |-> 1, age |-> 24, gender |-> <<"m">>,
       occupation |-> <<"d", "r">>, zip_code |-> Some(85711)]>>

InitFrom(F) ==
    /\ files \in F
    /\ pc = "start"
    /\ ratings = <<>> /\ items = <<>> /\ users = <<>>
    /\ ratings_clean = <<>> /\ items_clean = <<>> /\ users_clean = <<>>
    /\ final_data = <<>>
    /\ user_item_matrix = EmptyMatrix
    /\ svd_data = <<>>
    /\ sparsity = <<0, 1>>
    /\ log = NoLog
    /\ written = {}

\* u.data varies; u.item and u.user are fixed.
RatingsFiles ==
    {[data |-> File(d, DataCols), item |-> File(BaseItems, ItemCols),
      user |-> File(BaseUsers, UserCols)] : d \in SeqUpTo(RatingRows, MaxRatings)}

\* u.item varies: one row with any few flags set, or a few rows that may share
\* an item_id.
ItemsFiles ==
    {[data |-> File(BaseData, DataCols), item |-> File(i, ItemCols),
      user |-> File(BaseUsers, UserCols)] :
        i \in {<<[item_id |-> 1, movie_title |-> TitleYear, flags |-> Flags(a)]>> :
                  a \in SmallSubsets(GenreNames, MaxFlagsSet)}
              \cup SeqUpTo(ItemRows, MaxItems)}

\* u.user varies: one row of any age, or a few rows that may share a user_id.
UsersFiles ==
    {[data |-> File(BaseData, DataCols), item |-> File(BaseItems, ItemCols),
      user |-> File(u, UserCols)] :
        u \in {<<[BaseUsers[1] EXCEPT !.age = a]>> : a \in 0..MaxAge}
              \cup SeqUpTo(UserRows, MaxUsers)}

\* All three tables vary over the keys the joins match on.
JoinRatingRows ==
    [user_id : {1, 2}, item_id : {1, 2}, rating : {Some(3)},
     timestamp : {<<"int64", 0>>}]

JoinItemRows ==
    {[item_id |-> 1, movie_title |-> TitleYear, flags |-> Flags({"Action"})],
     [item_id |-> 1, movie_title |-> TitleNoYear, flags |-> Flags({})],
     [item_id |-> 2, movie_title |-> TitleYear, flags |-> Flags({"War"})]}

JoinUserRows ==
    {[user_id |-> 1, age |-> 17, gender |-> <<"m">>,
      occupation |-> <<"d", "r">>, zip_code |-> Some(85711)],
     [user_id |-> 1, age |-> 30, gender |-> <<"F">>,
      occupation |-> <<"d", "r">>, zip_code |-> Some(85711)],
     [user_id |-> 2, age |-> 65, gender |-> <<"F">>,
      occupation |-> <<"d", "r">>, zip_code |-> Some(85711)]}

JoinFiles ==
    {[data |-> File(d, DataCols), item |-> File(i, ItemCols),
      user |-> File(u, UserCols)] :
        d \in SeqUpTo(JoinRatingRows, MaxJoinRatings),
        i \in SeqUpTo(JoinItemRows, MaxJoinItems),
        u \in SeqUpTo(JoinUserRows, MaxJoinUsers)}

\* The files may be missing or one column short.
LoadFiles ==
    {[data |-> [exists |-> e[1], ncols |-> n[1], rows |-> BaseData],
      item |-> [exists |-> e[2], ncols |-> n[2], rows |-> BaseItems],
      user |-> [exists |-> e[3], ncols |-> n[3], rows |-> BaseUsers]] :
        e \in BOOLEAN \X BOOLEAN \X BOOLEAN,
        n \in {DataCols - 1, DataCols} \X {ItemCols - 1, ItemCols}
              \X {UserCols - 1, UserCols}}

InitRatings == InitFrom(RatingsFiles)
InitItems == InitFrom(ItemsFiles)
InitUsers == InitFrom(UsersFiles)
InitJoin == InitFrom(JoinFiles)
InitLoad == InitFrom(LoadFiles)
InitClean == InitRatings \/ InitItems \/ InitUsers
Init == InitRatings \/ InitItems \/ InitUsers \/ InitJoin \/ InitLoad

Spec == Init /\ [][Next]_vars
SpecRatings == InitRatings /\ [][Next]_vars
SpecItems == InitItems /\ [][Next]_vars
SpecUsers == InitUsers /\ [][Next]_vars
SpecJoin == InitJoin /\ [][Next]_vars
SpecLoad == InitLoad /\ [][Next]_vars
SpecClean == InitClean /\ [][Next]_vars

(***************************************************************************)
(* Properties.                                                             *)
(***************************************************************************)
Stages ==
    <<"start", "loaded", "inspected", "ratings_cleaned", "items_cleaned",
      "users_cleaned", "integrated", "prepared", "done">>

StageNo(s) == CHOOSE k \in 1..Len(Stages) : Stages[k] = s

\* main has completed the step that leaves pc = s (and has not aborted).
Reached(s) == pc # "aborted" /\ StageNo(pc) >= StageNo(s)

\* ---- C1 ----------------------------------------------------------------
\* C1: every row of the table returned by clean_ratings_data has a rating r
\* with 1 <= r <= 5; no out-of-range, zero or missing rating survives.
C1_CleanedRatingsInRange ==
    Reached("ratings_cleaned") =>
        \A k \in 1..Len(ratings_clean) :
            Ge(ratings_clean[k].rating, 1) /\ Le(ratings_clean[k].rating, 5)

\* ---- C10 ---------------------------------------------------------------
\* C10: the invalid-rating count clean_ratings_data reports equals the number
\* of rows its range filter removes, so reported duplicates + reported invalid
\* = input rows - output rows.
C10_ReportedCountsAddUp ==
    Reached("ratings_cleaned") =>
        log.duplicate_ratings + log.invalid_ratings
            = Len(ratings) - Len(ratings_clean)

\* ---- C2 ----------------------------------------------------------------
HasItem(id) == \E j \in 1..Len(items_clean) : items_clean[j].item_id = id
HasUser(id) == \E j \in 1..Len(users_clean) : users_clean[j].user_id = id

\* C2: integrate_data returns exactly as many rows as the cleaned ratings
\* table, row k being rating row k with user_id, item_id and rating unchanged,
\* and with the joined fields null when its item_id or user_id has no match.
C2_LeftJoinKeepsEveryRating ==
    Reached("integrated") =>
        /\ Len(final_data) = Len(ratings_clean)
        /\ \A k \in 1..Len(final_data) :
            /\ final_data[k].user_id = ratings_clean[k].user_id
            /\ final_data[k].item_id = ratings_clean[k].item_id
            /\ final_data[k].rating = ratings_clean[k].rating
            /\ ~HasItem(final_data[k].item_id) =>
                  /\ IsNull(final_data[k].movie_title)
                  /\ IsNull(final_data[k].release_year)
                  /\ IsNull(final_data[k].genres)
            /\ ~HasUser(final_data[k].user_id) =>
                  /\ IsNull(final_data[k].age)
                  /\ IsNull(final_data[k].gender)
                  /\ IsNull(final_data[k].occupation)
                  /\ IsNull(final_data[k].age_group)

\* A rating without a matching item has been integrated, the raw item table
\* having held a duplicate item_id.
C2_Witness ==
    /\ pc = "integrated"
    /\ log.duplicate_items > 0
    /\ \E k \in 1..Len(final_data) :
          ~HasItem(final_data[k].item_id) /\ HasUser(final_data[k].user_id)

\* ---- C3 ----------------------------------------------------------------
\* The cell of the matrix at (u, i); NaN when the matrix has no such label.
Cell(u, i) ==
    IF <<u, i>> \in DOMAIN user_item_matrix.cell
    THEN user_item_matrix.cell[<<u, i>>] ELSE NaN

TripleUsers == {svd_data[k].user_id : k \in 1..Len(svd_data)}
TripleItems == {svd_data[k].item_id : k \in 1..Len(svd_data)}

\* The triples of (u, i) that carry a rating.
Rated(u, i) ==
    {k \in 1..Len(svd_data) :
        /\ svd_data[k].user_id = u
        /\ svd_data[k].item_id = i
        /\ ~IsNull(svd_data[k].rating)}

TriplesOf(u, i) ==
    {k \in 1..Len(svd_data) : svd_data[k].user_id = u /\ svd_data[k].item_id = i}

\* C3 as stated: for every row u and column i of the matrix, cell (u, i) equals
\* the rating of each triple (u, i, r) when such a triple exists, and 0
\* otherwise.  (Triples whose rating is missing are left unconstrained.)
C3_CellEqualsEachTriple ==
    Reached("prepared") =>
        \A u \in user_item_matrix.index, i \in user_item_matrix.columns :
            /\ \A k \in Rated(u, i) : Cell(u, i) = <<svd_data[k].rating[1], 1>>
            /\ TriplesOf(u, i) = {} => Cell(u, i) = <<0, 1>>

RECURSIVE SumRatings(_)
SumRatings(K) ==
    IF K = {} THEN 0
    ELSE LET k == CHOOSE x \in K : TRUE
         IN  svd_data[k].rating[1] + SumRatings(K \ {k})

\* C3 amended: the rows and columns of the matrix are the users and items with
\* a triple that carries a rating; cell (u, i) is the arithmetic mean of the
\* ratings of the triples (u, i, r) that carry one, and 0 when there is none.
C3_CellIsMeanOfTriples ==
    Reached("prepared") =>
        /\ user_item_matrix.index =
              {u \in TripleUsers : \E i \in TripleItems : Rated(u, i) # {}}
        /\ user_item_matrix.columns =
              {i \in TripleItems : \E u \in TripleUsers : Rated(u, i) # {}}
        /\ \A u \in user_item_matrix.index, i \in user_item_matrix.columns :
              LET c == Cell(u, i) 
              IN  /\ ~IsNull(c)
                  /\ c[2] > 0
                  /\ c[1] * Cardinality(Rated(u, i)) = SumRatings(Rated(u, i)) * c[2]
                  /\ Rated(u, i) = {} => c = <<0, 1>>

\* The same pair has been rated twice with different ratings and pivoted.
C3_Witness ==
    /\ pc = "prepared"
    /\ \E u \in TripleUsers, i \in TripleItems :
          \E k \in Rated(u, i), j \in Rated(u, i) :
              svd_data[k].rating # svd_data[j].rating

\* ---- C4 ----------------------------------------------------------------
\* The cells of the user x item grid for which no rating row was observed.
EmptyCells == {p \in TripleUsers \X TripleItems : TriplesOf(p[1], p[2]) = {}}

\* C4: n_users * n_items - len(triples) equals the number of grid cells with no
\* rating: the sparsity is the fraction of empty cells, between 0% and 100%.
C4_SparsityIsEmptyFraction ==
    Reached("prepared") =>
        /\ sparsity[1] * Cardinality(TripleUsers \X TripleItems)
              = 100 * Cardinality(EmptyCells) * sparsity[2]
        /\ 0 <= sparsity[1]
        /\ sparsity[1] <= 100 * sparsity[2]

\* ---- C5 ----------------------------------------------------------------
\* C5: applying a cleaner to its own output removes no further row and yields
\* the same rows and derived fields.  Each cleaner's output is examined in the
\* state its step of main leaves; no later step changes it.
C5_CleaningIsIdempotent ==
    /\ pc = "ratings_cleaned" =>
          clean_ratings_data(ratings_clean)
              = [table |-> ratings_clean, removed_duplicates |-> 0,
                 invalid_found |-> 0]
    /\ pc = "items_cleaned" =>
          LET c == clean_items_data(items_clean)
          IN  c.table = items_clean /\ c.removed_duplicates = 0 /\ ~c.raised
    /\ pc = "users_cleaned" =>
          clean_users_data(users_clean)
              = [table |-> users_clean, removed_duplicates |-> 0]

\* The item cleaner has removed a duplicate and stripped a padded title that
\* carries a year.
C5_Witness ==
    /\ pc = "users_cleaned"
    /\ log.duplicate_items > 0
    /\ items[1].movie_title = TitleYearPadded
    /\ items_clean[1].movie_title = TitleYear
    /\ items_clean[1].release_year = Some(1995)

\* ---- C6 ----------------------------------------------------------------
\* C6: categorize_age maps every age to exactly one group by left-closed,
\* right-open buckets.
C6_AgeGroupBuckets ==
    Reached("users_cleaned") =>
        \A k \in 1..Len(users_clean) :
            LET age == users_clean[k].age
                group == users_clean[k].age_group
            IN  /\ (age < 18) <=> (group = "Under 18")
                /\ (age \in 18..24) <=> (group = "18-24")
                /\ (age \in 25..34) <=> (group = "25-34")
                /\ (age \in 35..49) <=> (group = "35-49")
                /\ (age \in 50..64) <=> (group = "50-64")
                /\ (age >= 65) <=> (group = "65+")

\* A user aged exactly 18 has been put in "18-24".
C6_Witness ==
    /\ Reached("users_cleaned")
    /\ \E k \in 1..Len(users_clean) :
          users_clean[k].age = 18 /\ users_clean[k].age_group = "18-24"

\* ---- C7 ----------------------------------------------------------------
IsActive(row, g) == row.flags[g] = Some(1)

\* The names of the genres other than 'unknown' that are active in the row, in
\* declaration order.
ExpectedGenres(row) ==
    SelectSeq(SubSeq(genre_cols, 2, Len(genre_cols)), LAMBDA g : IsActive(row, g))

\* C7: genres lists exactly the names other than 'unknown' whose flag is 1, in
\* declaration order, and is 'Unknown' exactly when none of those flags is 1,
\* whatever the 'unknown' flag.
C7_GenresListActiveFlags ==
    Reached("items_cleaned") =>
        \A k \in 1..Len(items_clean) :
            LET row == items_clean[k]
                names == ExpectedGenres(row)
            IN  /\ (names = <<>>) <=> (row.genres = "Unknown")
                /\ Len(names) = 1 => row.genres = names[1]
                /\ Len(names) = 2 => row.genres = names[1] \o ", " \o names[2]
                /\ Len(names) >= 1 => row.genres = join(names)
                /\ (\A g \in GenreNames : IsActive(row, g) <=> g = "Action")
                      => row.genres = "Action"

\* An item whose only set flag is 'unknown' has been given genres 'Unknown'.
C7_Witness ==
    /\ Reached("items_cleaned")
    /\ \E k \in 1..Len(items_clean) :
          /\ IsActive(items_clean[k], "unknown")
          /\ \A g \in GenreNames \ {"unknown"} : ~IsActive(items_clean[k], g)
          /\ items_clean[k].genres = "Unknown"

\* ---- C8 ----------------------------------------------------------------
\* The first row of t, in order, whose column col holds id.
FirstWith(t, col, id) ==
    t[CHOOSE k \in 1..Len(t) :
        t[k][col] = id /\ \A j \in 1..(k - 1) : t[j][col] # id]

KeysOf(t, col) == {t[k][col] : k \in 1..Len(t)}

\* C8: after cleaning no two item rows share an item_id and no two user rows a
\* user_id; the set of keys is that of the input and the row kept for a key is
\* the (cleaned) first occurrence of the key in input order.
C8_DedupKeepsFirstPerKey ==
    /\ Reached("items_cleaned") =>
          /\ \A k, j \in 1..Len(items_clean) :
                items_clean[k].item_id = items_clean[j].item_id => k = j
          /\ KeysOf(items_clean, "item_id") = KeysOf(items, "item_id")
          /\ \A k \in 1..Len(items_clean) :
                items_clean[k]
                    = clean_item_row(FirstWith(items, "item_id", items_clean[k].item_id))
    /\ Reached("users_cleaned") =>
          /\ \A k, j \in 1..Len(users_clean) :
                users_clean[k].user_id = users_clean[j].user_id => k = j
          /\ KeysOf(users_clean, "user_id") = KeysOf(users, "user_id")
          /\ \A k \in 1..Len(users_clean) :
                users_clean[k]
                    = clean_user_row(FirstWith(users, "user_id", users_clean[k].user_id))

\* Two different user rows with the same user_id have been cleaned.
C8_Witness ==
    /\ pc = "users_cleaned"
    /\ Len(users) = 2
    /\ users[1].user_id = users[2].user_id
    /\ clean_user_row(users[1]) # clean_user_row(users[2])
    /\ Len(users_clean) = 1

\* ---- C9 ----------------------------------------------------------------
LoadFails ==
    \/ ~files.data.exists \/ ~files.item.exists \/ ~files.user.exists
    \/ files.data.ncols # DataCols
    \/ files.item.ncols # ItemCols
    \/ files.user.ncols # UserCols

\* C9: if a required file is missing or a file's column count does not match
\* the schema, no artifact is written; and no artifact is written in any run
\* before every stage up to the matrix builder has completed.
C9_LoadFailureWritesNothing ==
    /\ LoadFails => written = {}
    /\ written # {} => pc = "done"

====
